---- MODULE Spec2Model ----
(***************************************************************************)
(* Model of vault-token-go: the Vault token manager (gcpAuthToken), the    *)
(* JWT signing retry loop (gcpAuthJwt.createSignedJwtWithRetry) and the    *)
(* client facade (VaultClientConnection).                                  *)
(*                                                                         *)
(* The Vault server, the signing endpoint and the wall clock are the       *)
(* environment: every response and every request latency is an input drawn *)
(* from a small set. Time is a natural number of seconds.                  *)
(***************************************************************************)
EXTENDS Integers, Sequences, FiniteSets, TLC

\* ------------------------------------------------------------- state
VARIABLES
    gat,      \* the token manager a package-level caller holds
    clock,    \* time.Now(), in seconds
    vcc,      \* the VaultClientConnection: client token and auth provider
    issued,   \* number of client tokens the server has issued
    last,     \* the call made by the latest step and what it returned
    granted,  \* history: token of the latest successful getToken on gat, no
              \* successful revoke since
    basis,    \* history: timestamps and TTL of the request that last set
              \* gat.expiration
    dropped,  \* history: a revoke cleared gat.token and getToken has not been
              \* called since
    facade,   \* history: GetApiInterface calls made, token managers they
              \* constructed, whether one has succeeded
    conc,     \* concurrent callers of gat.getToken: where each is in the
              \* function body and its local variables
    sent,     \* history: login requests the concurrent callers have sent
    cfg,      \* the gcpAuthConfig the manager and its signer were made with
    wire,     \* history: signed JWTs the signer has handed to getToken on gat
              \* and the body of the latest login request getToken sent
    signer    \* a createSignedJwtWithRetry call followed attempt by attempt:
              \* the retry loop's counters and what the latest attempt saw,
              \* built and returned

vars ==
    <<gat, clock, vcc, issued, last, granted, basis, dropped, facade, conc, sent,
      cfg, wire, signer>>

\* the goroutines that share one manager
Callers == {"a", "b"}

\* ------------------------------------------------------------- bounds
\* largest TTL (seconds) a server response reports
MaxTtl == 2
\* largest latency (seconds) of one network phase
MaxDelay == 1
\* horizon of the clock
MaxClock == 4
\* number of client tokens the server issues in one run
MaxIssued == 3
\* number of GetApiInterface calls in one run
MaxCalls == 3
\* largest retry cap a direct caller of createSignedJwtWithRetry passes
MaxRetryCap == 5

\* number of login requests getToken sends in one run
MaxLogins == 3
\* longest body (characters) the metadata service answers with
MaxBody == 2

\* the retry cap getToken passes to createSignedJwtWithRetry
cGetTokenRetries == 5

\* validity of a signed JWT in minutes
cJwtTokenTimeoutMins == 1

\* ------------------------------------------------------------- values
\* *vaultapi.Secret as far as this package reads it: the nil pointer, the
\* Auth block (nil or not) with its ClientToken and LeaseDuration, and
\* Data["ttl"] (absent, not a duration, or a number of seconds).
Secret(auth, id, lease, data, secs) ==
    [isNil |-> FALSE, hasAuth |-> auth, clientToken |-> id, lease |-> lease,
     data |-> data, dataSecs |-> secs]

NilSecret ==
    [isNil |-> TRUE, hasAuth |-> FALSE, clientToken |-> 0, lease |-> 0,
     data |-> "none", dataSecs |-> 0]

\* Secret.TokenTTL of vault/api as called by getToken and refresh: a nil
\* secret has TTL 0 and no error; Auth.LeaseDuration > 0 wins; otherwise
\* Data["ttl"], absent meaning 0 and an unparsable value an error.
TokenTTL(s) ==
    IF s.isNil THEN [err |-> FALSE, ttl |-> 0]
    ELSE IF s.hasAuth /\ s.lease > 0 THEN [err |-> FALSE, ttl |-> s.lease]
    ELSE IF s.data = "none" THEN [err |-> FALSE, ttl |-> 0]
    ELSE IF s.data = "bad" THEN [err |-> TRUE, ttl |-> 0]
    ELSE [err |-> FALSE, ttl |-> s.dataSecs]

\* What Logical().Write / RenewSelf can hand back: an error, or (no error)
\* a nil secret for an empty body, or a secret with or without Auth.
\* `id` is the client token the server puts in Auth.
SecretResponses(id) ==
    {[err |-> TRUE, secret |-> NilSecret], [err |-> FALSE, secret |-> NilSecret]}
    \cup {[err |-> FALSE, secret |-> Secret(TRUE, id, l, "none", 0)] : l \in 0..MaxTtl}
    \cup {[err |-> FALSE, secret |-> Secret(FALSE, 0, 0, d, 0)] : d \in {"none", "bad"}}
    \cup {[err |-> FALSE, secret |-> Secret(FALSE, 0, 0, "secs", MaxTtl)]}

\* gcpAuthToken: token (nil until login) and expiration (zero time).
newGcpAuthToken == [token |-> NilSecret, expiration |-> 0]

\* ------------------------------------------------------------- signing
\* A signing stub: the first `fails` attempts return an error, the next one
\* does `then` (returns a signed JWT, or panics in createSignedJwt).
SignStubs == [fails : 0..(MaxRetryCap + 1), then : {"signed", "panic"}]

\* createSignedJwt, attempt number i against the stub.
createSignedJwt(stub, i) == IF i <= stub.fails THEN "error" ELSE stub.then

\* faulty variant: the cap counts attempts, not retries
StopRetryEarly(maxRetries, numTries) == maxRetries <= numTries + 1

\* backOffTries.NextBackOff: Stop once maxTries <= numTries
StopRetry(maxRetries, numTries) == maxRetries <= numTries

\* backoff.Retry over backoff.WithMaxRetries(b, maxRetries): run the
\* operation; nil error returns; otherwise NextBackOff stops once numTries
\* has reached maxRetries, else counts the retry and loops. The JWT and the
\* error cause carry the number of the attempt that produced them.
RECURSIVE Retry(_, _, _, _)
Retry(stub, maxRetries, i, numTries) ==
    LET r == createSignedJwt(stub, i) IN
    IF r = "signed"
    THEN [kind |-> "ok", attempts |-> i, jwt |-> i, cause |-> 0]
    ELSE IF r = "panic"
    THEN [kind |-> "panic", attempts |-> i, jwt |-> 0, cause |-> 0]
    ELSE IF StopRetry(maxRetries, numTries)
    THEN [kind |-> "err", attempts |-> i, jwt |-> 0, cause |-> i]
    ELSE Retry(stub, maxRetries, i + 1, numTries + 1)

createSignedJwtWithRetry(stub, maxRetries) == Retry(stub, maxRetries, 1, 0)

\* ------------------------------------------------------------- one signing attempt
\* Strings whose content the code looks into are sequences of characters.

\* gcpAuth.getConfig: the role as given, the GCP auth mount
getConfig(role) == [role |-> role, authPath |-> "auth/gcp"]

\* the roles an application is configured with
Roles == {"app", "batch"}

\* *google.Credentials as parseCredentials reads it: hasJSON is
\* len(creds.JSON) > 0; allStrings says whether every value of the JSON
\* object is a string, which json.Unmarshal into map[string]string needs;
\* clientEmail is the value of "client_email", empty when absent.
Material(hasJSON, allStrings, clientEmail) ==
    [hasJSON |-> hasJSON, allStrings |-> allStrings, clientEmail |-> clientEmail]

\* credentials without JSON (the metadata-server credentials of workload
\* identity)
NoMaterial == Material(FALSE, TRUE, <<>>)

\* What google.FindDefaultCredentials can hand back: an error, or
\* credentials: without JSON, a service-account key, a file of strings
\* without client_email (authorized_user), a file with a nested object and
\* no client_email (external_account: credential_source), a file with a
\* nested object and a client_email.
Discoveries ==
    {[err |-> TRUE, creds |-> NoMaterial], [err |-> FALSE, creds |-> NoMaterial]}
    \cup {[err |-> FALSE, creds |-> Material(TRUE, a, e)] :
             a \in BOOLEAN, e \in {<<>>, <<"s">>}}

\* parseCredentials: with JSON present, an Unmarshal error is returned,
\* otherwise data["client_email"]; without JSON the empty string.
parseCredentials(creds) ==
    IF creds.hasJSON
    THEN IF ~creds.allStrings
         THEN [err |-> TRUE, email |-> <<>>]
         ELSE [err |-> FALSE, email |-> creds.clientEmail]
    ELSE [err |-> FALSE, email |-> <<>>]

\* strings.TrimSpace over the characters " " and "d"
RECURSIVE TrimLeft(_)
TrimLeft(s) == IF s # <<>> /\ Head(s) = " " THEN TrimLeft(Tail(s)) ELSE s

RECURSIVE TrimRight(_)
TrimRight(s) ==
    IF s # <<>> /\ s[Len(s)] = " " THEN TrimRight(SubSeq(s, 1, Len(s) - 1)) ELSE s

TrimSpace(s) == TrimRight(TrimLeft(s))

\* bodies of at most MaxBody characters
Bodies == UNION {[1..n -> {" ", "d"}] : n \in 0..MaxBody}

\* the metadata service was not asked
NoMetadata == [doErr |-> FALSE, status |-> 0, readErr |-> FALSE, body |-> <<>>]

\* What the GET on the metadata service can give: a transport error, a
\* status other than 200, a body that cannot be read, or 200 with a body.
MetadataReplies ==
    {[NoMetadata EXCEPT !.doErr = TRUE],
     [NoMetadata EXCEPT !.status = 404, !.body = <<"d">>],
     [NoMetadata EXCEPT !.status = 200, !.readErr = TRUE]}
    \cup {[NoMetadata EXCEPT !.status = 200, !.body = b] : b \in Bodies}

\* getDefaultSaEmail: c.Do error, status other than 200, read error and an
\* empty trimmed body are errors; otherwise the trimmed body.
getDefaultSaEmail(meta) ==
    IF meta.doErr \/ meta.status # 200 \/ meta.readErr
    THEN [err |-> TRUE, saEmail |-> <<>>]
    ELSE IF TrimSpace(meta.body) = <<>>
    THEN [err |-> TRUE, saEmail |-> <<>>]
    ELSE [err |-> FALSE, saEmail |-> TrimSpace(meta.body)]

\* getSaInfo: FindDefaultCredentials, then parseCredentials, an error of
\* either being returned; with an empty e-mail the metadata service is asked
\* (queried) and its error returned.
getSaInfo(found, meta) ==
    LET p == parseCredentials(found.creds)
        d == getDefaultSaEmail(meta)
    IN  IF found.err \/ p.err
        THEN [err |-> TRUE, saEmail |-> <<>>, queried |-> FALSE]
        ELSE IF p.email = <<>>
        THEN [err |-> d.err, saEmail |-> d.saEmail, queried |-> TRUE]
        ELSE [err |-> FALSE, saEmail |-> p.email, queried |-> FALSE]

\* faulty variant: the timeout is added as seconds, not minutes
ClaimExpirySeconds(now) == now + cJwtTokenTimeoutMins

\* "exp": time.Now().UTC().Add(cJwtTokenTimeoutMins * time.Minute).Unix()
ClaimExpiry(now) == now + cJwtTokenTimeoutMins * 60

\* the claim createSignedJwt marshals: "aud" is "vault/" + role
Claim(role, saEmail, now) ==
    [aud |-> <<"vault/", role>>, sub |-> saEmail, exp |-> ClaimExpiry(now)]

NoClaim == [aud |-> <<>>, sub |-> <<>>, exp |-> 0]

\* no request was posted to the signing endpoint
NoReply ==
    [postErr |-> FALSE, readErr |-> FALSE, json |-> FALSE, error |-> "absent",
     signedJwt |-> "absent"]

\* What the POST to :signJwt can give: a transport error, a body that
\* cannot be read, a body that is not a JSON object, or a JSON object. Its
\* "error" member is absent, an object with a numeric code and string
\* status and message ("object"), an object without one of them or with
\* one of another type ("partial"), or not an object ("text"); its
\* "signedJwt" member is absent, a string or a number.
SignReplies ==
    {[NoReply EXCEPT !.postErr = TRUE], [NoReply EXCEPT !.readErr = TRUE], NoReply}
    \cup {[NoReply EXCEPT !.json = TRUE, !.error = e, !.signedJwt = j] :
             e \in {"absent", "object", "partial", "text"},
             j \in {"absent", "string", "number"}}

\* createSignedJwt from the response on: Post, ReadAll and Unmarshal errors
\* are returned; with an "error" member the type assertions
\* jwtErr.(map[string]any), m["code"].(float64), m["status"].(string),
\* m["message"].(string) panic unless it is a complete object, and then an
\* error is returned; otherwise data["signedJwt"].(string) decides.
ReadSignReply(reply) ==
    IF reply.postErr \/ reply.readErr \/ ~reply.json THEN "err"
    ELSE IF reply.error = "object" THEN "err"
    ELSE IF reply.error # "absent" THEN "panic"
    ELSE IF reply.signedJwt = "string" THEN "ok"
    ELSE "err"

\* One createSignedJwt call for role, begun at clock clk: resolving the
\* service account takes d seconds, then the claim is stamped and posted.
\* found, meta and reply are what discovery, the metadata service and the
\* signing endpoint answer.
createSignedJwtAttempt(role, clk, found, meta, d, reply) ==
    LET sa == getSaInfo(found, meta)
        now == clk + d
    IN  IF sa.err
        THEN [kind |-> "err", resolved |-> FALSE, queried |-> sa.queried,
              saEmail |-> <<>>, claim |-> NoClaim, clock |-> now]
        ELSE [kind |-> ReadSignReply(reply), resolved |-> TRUE,
              queried |-> sa.queried, saEmail |-> sa.saEmail,
              claim |-> Claim(role, sa.saEmail, now), clock |-> now]

\* ------------------------------------------------------------- token manager
\* What one call did and returned. requests are counted per call.
\* cap: the retry cap or TTL hint passed; jwt, cause: the attempt whose JWT
\* went on or whose error came back; fails: the failing attempts the stub of
\* a direct signing call was set to; afterRevoke: the call is the first
\* getToken since a revoke cleared the token.
NoCall ==
    [op |-> "none", err |-> FALSE, panic |-> FALSE, token |-> NilSecret,
     flag |-> FALSE, signs |-> 0, logins |-> 0, lookups |-> 0, renews |-> 0,
     revokes |-> 0, managers |-> 0, cap |-> 0, jwt |-> 0, cause |-> 0,
     fails |-> 0, afterRevoke |-> FALSE]

\* faulty variant: the test also yields to a caller already past it
HoldsNoTokenSingleFlight(g) ==
    g.token.isNil /\ \A c \in Callers : conc[c].pc \in {"idle", "ret", "done"}

\* getToken's test: gat.token == nil
HoldsNoToken(g) == g.token.isNil

\* faulty variant: the timestamp is read after the login request
LoginExpirationAfter(pre, post, ttl) == post + ttl

\* getToken: gat.expiration = now.Add(tokenTtl), now captured before the
\* login request (pre); post is the clock when the response is in.
LoginExpiration(pre, post, ttl) == pre + ttl

\* faulty variant: the role is left out of the login request
LoginRequestNoRole(role, signedJwt) == [role |-> "", jwt |-> signedJwt]

\* getToken's jsonData: "role": gat.cfg.role, "jwt": signedJwt
LoginRequest(role, signedJwt) == [role |-> role, jwt |-> signedJwt]

\* no login request sent yet
NoWire == [minted |-> 0, request |-> LoginRequest("", 0)]

\* faulty variant: a failed login is tried once more
LoginRequestsRetried(failed) == IF failed THEN 2 ELSE 1

\* getToken's login: one Logical().Write; its error, and the TTL error, are
\* returned to the caller, there is no loop around the request
LoginRequests(failed) == 1

\* getToken on manager g, the clock reading clk once signing is over (the
\* time.Now() before the login request); the login request takes dl seconds;
\* stub and resp are what the signer and the login endpoint answer. The
\* result carries the manager after the call, the clock after the call and
\* what the caller gets.
getToken(g, clk, stub, resp, dl) ==
    LET s == createSignedJwtWithRetry(stub, cGetTokenRetries)
        now == clk
        ttl == TokenTTL(resp.secret)
        noLogin == [gat |-> g, clock |-> now, token |-> NilSecret, err |-> TRUE,
                    panic |-> FALSE, signs |-> s.attempts, logins |-> 0,
                    jwt |-> 0, cause |-> s.cause, pre |-> now, ttl |-> 0]
    IN  IF ~HoldsNoToken(g)
        THEN [noLogin EXCEPT !.clock = clk, !.token = g.token, !.err = FALSE,
                             !.signs = 0, !.cause = 0, !.pre = clk]
        ELSE IF s.kind = "panic" THEN [noLogin EXCEPT !.panic = TRUE, !.err = FALSE]
        ELSE IF s.kind = "err" THEN noLogin
        ELSE IF resp.err \/ ttl.err
        THEN [noLogin EXCEPT !.clock = now + dl, !.logins = LoginRequests(TRUE),
                             !.jwt = s.jwt]
        ELSE [noLogin EXCEPT
                 !.gat = [token |-> resp.secret,
                          expiration |-> LoginExpiration(now, now + dl, ttl.ttl)],
                 !.clock = now + dl, !.token = resp.secret, !.err = FALSE,
                 !.logins = LoginRequests(FALSE), !.jwt = s.jwt, !.ttl = ttl.ttl]

\* isExpired: a nil token is expired, otherwise time.Now().After(expiration)
isExpired(g, clk) == IF g.token.isNil THEN TRUE ELSE clk > g.expiration

\* isRevoked's mapping of the lookup's error to the result:
\* revoked = (testErr == nil)
RevokedFromLookup(testErr) == (testErr = FALSE)

\* isRevoked: nil token is revoked without a request; a failed Clone returns
\* the error; gat.token.Auth.ClientToken panics on a secret without Auth;
\* otherwise one LookupSelf whose error decides the result.
isRevoked(g, cloneErr, testErr) ==
    IF g.token.isNil
    THEN [revoked |-> TRUE, err |-> FALSE, panic |-> FALSE, lookups |-> 0]
    ELSE IF cloneErr
    THEN [revoked |-> FALSE, err |-> TRUE, panic |-> FALSE, lookups |-> 0]
    ELSE IF ~g.token.hasAuth
    THEN [revoked |-> FALSE, err |-> FALSE, panic |-> TRUE, lookups |-> 0]
    ELSE [revoked |-> RevokedFromLookup(testErr), err |-> FALSE,
          panic |-> FALSE, lookups |-> 1]

\* refresh: gat.expiration = time.Now().Add(tokenTtl), time.Now() read after
\* RenewSelf returned (post); pre is the clock before the request.
RefreshExpiration(pre, post, ttl) == post + ttl

\* faulty variant: the test for a nil token is missing
NothingToRefreshNever(g) == FALSE

\* refresh's test: gat.token == nil
NothingToRefresh(g) == g.token.isNil

\* faulty variant: the expiration is written before the errors are looked at
ExpirationAfterFailedRenewEager(old, post) == post

\* refresh returns on the renew error and on the TTL error before it reaches
\* the assignment to gat.expiration: the old value stays
ExpirationAfterFailedRenew(old, post) == old

\* faulty variant: the renewed secret replaces the held token
TokenAfterRenewStored(tok, renewed) == renewed

\* refresh reads the renewed secret for its TTL only; gat.token is not
\* assigned
TokenAfterRenew(tok, renewed) == tok

\* refresh on manager g at clock clk; the renew-self request carries the
\* suggested TTL, takes d seconds and answers resp (the server need not use
\* the suggestion).
refresh(g, clk, nextTtlInSeconds, resp, d) ==
    LET ttl == TokenTTL(resp.secret) IN
    IF NothingToRefresh(g)
    THEN [gat |-> g, clock |-> clk, err |-> TRUE, renews |-> 0, ttl |-> 0]
    ELSE IF resp.err \/ ttl.err
    THEN [gat |-> [g EXCEPT !.expiration = ExpirationAfterFailedRenew(g.expiration, clk + d)],
          clock |-> clk + d, err |-> TRUE, renews |-> 1, ttl |-> 0]
    ELSE [gat |-> [token |-> TokenAfterRenew(g.token, resp.secret),
                   expiration |-> RefreshExpiration(clk, clk + d, ttl.ttl)],
          clock |-> clk + d, err |-> FALSE, renews |-> 1, ttl |-> ttl.ttl]

\* faulty variant: the token is not cleared
TokenAfterRevokeKept(tok, revErr) == tok

\* faulty variant: the token is cleared before the error is looked at
TokenAfterRevokeAlways(tok, revErr) == NilSecret

\* revoke's clearing of the token, given RevokeSelf's error
TokenAfterRevoke(tok, revErr) == IF revErr THEN tok ELSE NilSecret

\* revoke: with a token held, one RevokeSelf; its error is returned,
\* otherwise gat.token = nil. Without a token nothing happens.
revoke(g, revErr) ==
    IF g.token.isNil
    THEN [gat |-> g, err |-> FALSE, revokes |-> 0]
    ELSE [gat |-> [g EXCEPT !.token = TokenAfterRevoke(g.token, revErr)],
          err |-> revErr, revokes |-> 1]

\* ------------------------------------------------------------- facade
NoCredential == [kind |-> "none", id |-> 0]
StaticCredential == [kind |-> "static", id |-> 0]
IssuedCredential(id) == [kind |-> "issued", id |-> id]

\* NewVaultClient: a non-empty vaultToken is set on the client and auth stays
\* nil; otherwise auth is the GCP provider and no token is set.
NewVaultClient(vaultToken) ==
    IF vaultToken # ""
    THEN [vcToken |-> StaticCredential, auth |-> FALSE]
    ELSE [vcToken |-> NoCredential, auth |-> TRUE]

\* faulty variant: the static-token early return is missing
StaticModeNever(v) == FALSE

\* GetApiInterface's test for a static token: vcc.auth == nil
StaticMode(v) == ~v.auth

\* faulty variant: the client keeps the credential it had
AppliedCredentialKept(v, token) == v.vcToken

\* GetApiInterface's vc.SetToken(token.Auth.ClientToken): the credential the
\* client of connection v carries afterwards
AppliedCredential(v, token) == IssuedCredential(token.clientToken)

\* faulty variant: a failed call clears the client's credential
CredentialAfterFailureCleared(v) == NoCredential

\* GetApiInterface returns on the error of newVaultToken or getToken before
\* vc.SetToken: the client keeps the credential it had
CredentialAfterFailure(v) == v.vcToken

\* faulty variant: the manager of an earlier call, still holding its token, is reused
newVaultTokenReused(v) ==
    IF v.vcToken.kind = "issued"
    THEN [token |-> Secret(TRUE, v.vcToken.id, 1, "none", 0), expiration |-> 0]
    ELSE newGcpAuthToken

\* gcpAuth.newVaultToken, as GetApiInterface uses it: the manager the call
\* works with. v is the connection.
newVaultToken(v) == newGcpAuthToken

\* GetApiInterface on connection v: static mode returns the client; dynamic
\* mode makes a token provider, calls getToken and sets the client's token
\* from token.Auth.ClientToken (a panic when token or token.Auth is nil).
\* vc says that the call returned the connection's client, which it does
\* on every return, the error returns included.
GetApiInterface(v, clk, stub, resp, dl) ==
    LET r == getToken(newVaultToken(v), clk, stub, resp, dl)
        base == [vcc |-> v, clock |-> r.clock, err |-> r.err, panic |-> r.panic,
                 token |-> r.token, signs |-> r.signs, logins |-> r.logins,
                 managers |-> 1, jwt |-> r.jwt, cause |-> r.cause, vc |-> TRUE]
    IN  IF StaticMode(v)
        THEN [base EXCEPT !.clock = clk, !.err = FALSE, !.panic = FALSE,
                          !.token = NilSecret, !.signs = 0, !.logins = 0,
                          !.managers = 0, !.jwt = 0, !.cause = 0]
        ELSE IF r.panic THEN [base EXCEPT !.vc = FALSE]
        ELSE IF r.err
        THEN [base EXCEPT !.vcc = [v EXCEPT !.vcToken = CredentialAfterFailure(v)]]
        ELSE IF r.token.isNil \/ ~r.token.hasAuth
        THEN [base EXCEPT !.panic = TRUE, !.vc = FALSE]
        ELSE [base EXCEPT !.vcc = [v EXCEPT !.vcToken = AppliedCredential(v, r.token)]]

\* ------------------------------------------------------------- inputs
NoGrant == [has |-> FALSE, tok |-> NilSecret]
NoBasis == [kind |-> "none", pre |-> 0, post |-> 0, ttl |-> 0]

Delays == 0..MaxDelay
ErrResponse == [err |-> TRUE, secret |-> NilSecret]

\* the inputs a getToken call on manager g consumes: a signing stub when it
\* has to sign, a login response and latency when signing succeeds
StubsFor(g) == IF HoldsNoToken(g) THEN SignStubs ELSE {[fails |-> 0, then |-> "signed"]}
LoginsFor(g, stub) ==
    IF HoldsNoToken(g) /\ createSignedJwtWithRetry(stub, cGetTokenRetries).kind = "ok"
    THEN SecretResponses(issued + 1) \X Delays
    ELSE {<<ErrResponse, 0>>}

\* a caller outside getToken; inside, pc names the statement it is about to
\* run and now, resp, tokenTtl are getToken's locals (signedJwt is spent in
\* the login request); token and err are what its latest call returned.
Idle ==
    [pc |-> "idle", now |-> 0, resp |-> NilSecret, tokenTtl |-> 0,
     token |-> NilSecret, err |-> FALSE]

\* no createSignedJwtWithRetry call is being followed. Inside one, pc is
\* "try" before an attempt, "backoff" between attempts, "done" once the call
\* has returned, "panic" when an attempt panicked; numTries is the retry
\* count of backOffTries, attempts and failed count the createSignedJwt
\* calls made and those that returned an error; began is the clock when the
\* latest attempt started; found, meta, reply are what it was answered and
\* queried, saEmail, claim, outcome what it did with them.
NoSigner ==
    [pc |-> "idle", maxRetries |-> 0, numTries |-> 0, attempts |-> 0, failed |-> 0,
     began |-> 0, found |-> [err |-> FALSE, creds |-> NoMaterial],
     meta |-> NoMetadata, reply |-> NoReply, resolved |-> FALSE, queried |-> FALSE,
     saEmail |-> <<>>, claim |-> NoClaim, outcome |-> "none"]

\* the state once NewVaultClient(l, uri, caCert, caPath, vaultToken, role)
\* has returned and a manager has been made with newGcpAuthToken
InitWith(vaultToken, vaultRole) ==
    /\ gat = newGcpAuthToken
    /\ clock = 1
    /\ vcc = NewVaultClient(vaultToken)
    /\ issued = 0
    /\ last = NoCall
    /\ granted = NoGrant
    /\ basis = NoBasis
    /\ dropped = FALSE
    /\ facade = [calls |-> 0, made |-> 0, ok |-> FALSE]
    /\ conc = [c \in Callers |-> Idle]
    /\ sent = 0
    /\ cfg = getConfig(vaultRole)
    /\ wire = NoWire
    /\ signer = NoSigner

\* cloud hosting: no static token
Init == InitWith("", "app")

\* either hosting: VAULT_TOKEN empty or set
InitApi == \E vaultToken \in {"", "s.dev"} : InitWith(vaultToken, "app")

\* an unrecovered panic ends the program
Running == ~last.panic

\* gat.getToken(l)
GetToken ==
    /\ Running
    /\ \E stub \in StubsFor(gat) : \E in \in LoginsFor(gat, stub) :
       \E r \in {getToken(gat, clock, stub, in[1], in[2])} :
         /\ r.clock <= MaxClock
         /\ r.logins = 0 \/ (issued < MaxIssued /\ wire.minted < MaxLogins)
         /\ gat' = r.gat
         /\ wire' = IF r.jwt > 0
                    THEN [minted |-> wire.minted + 1,
                          request |-> LoginRequest(cfg.role, wire.minted + 1)]
                    ELSE wire
         /\ clock' = r.clock
         /\ issued' = IF r.logins = 1 /\ ~in[1].err /\ in[1].secret.hasAuth
                      THEN issued + 1 ELSE issued
         /\ last' = [NoCall EXCEPT !.op = "getToken", !.err = r.err,
                        !.panic = r.panic, !.token = r.token, !.signs = r.signs,
                        !.logins = r.logins, !.jwt = r.jwt, !.cause = r.cause,
                        !.cap = cGetTokenRetries, !.afterRevoke = dropped]
         /\ dropped' = FALSE
         /\ granted' = IF ~r.err /\ ~r.panic
                       THEN [has |-> TRUE, tok |-> r.token] ELSE granted
         /\ basis' = IF ~r.err /\ ~r.panic /\ r.logins = 1
                     THEN [kind |-> "login", pre |-> r.pre, post |-> r.clock,
                           ttl |-> r.ttl]
                     ELSE basis
    /\ UNCHANGED <<vcc, facade, conc, sent, cfg, signer>>

\* gat.isExpired(l)
IsExpired ==
    /\ Running
    /\ last' = [NoCall EXCEPT !.op = "isExpired", !.flag = isExpired(gat, clock)]
    /\ UNCHANGED <<gat, clock, vcc, issued, granted, basis, dropped,
                   facade, conc, sent, cfg, wire, signer>>

\* gat.isRevoked(l)
IsRevoked ==
    /\ Running
    /\ \E cloneErr \in BOOLEAN, testErr \in BOOLEAN :
       \E r \in {isRevoked(gat, cloneErr, testErr)} :
         last' = [NoCall EXCEPT !.op = "isRevoked", !.flag = r.revoked,
                     !.err = r.err, !.panic = r.panic, !.lookups = r.lookups,
                     !.cause = IF r.lookups = 1 /\ testErr THEN 1 ELSE 0]
    /\ UNCHANGED <<gat, clock, vcc, issued, granted, basis, dropped,
                   facade, conc, sent, cfg, wire, signer>>

\* gat.refresh(l, nextTtlInSeconds)
Refresh ==
    /\ Running
    /\ \E hint \in {0, MaxTtl} :
       \E in \in IF gat.token.isNil THEN {<<ErrResponse, 0>>}
                 ELSE SecretResponses(gat.token.clientToken) \X Delays :
       \E r \in {refresh(gat, clock, hint, in[1], in[2])} :
         /\ r.clock <= MaxClock
         /\ gat' = r.gat
         /\ clock' = r.clock
         /\ last' = [NoCall EXCEPT !.op = "refresh", !.err = r.err,
                        !.renews = r.renews, !.cap = hint]
         /\ basis' = IF ~r.err
                     THEN [kind |-> "refresh", pre |-> clock, post |-> r.clock,
                           ttl |-> r.ttl]
                     ELSE basis
    /\ UNCHANGED <<vcc, issued, granted, dropped, facade, conc, sent, cfg, wire, signer>>

\* gat.revoke(l)
Revoke ==
    /\ Running
    /\ \E revErr \in BOOLEAN :
       \E r \in {revoke(gat, revErr)} :
         /\ gat' = r.gat
         /\ last' = [NoCall EXCEPT !.op = "revoke", !.err = r.err,
                        !.revokes = r.revokes]
         /\ granted' = IF r.revokes = 1 /\ ~r.err THEN NoGrant ELSE granted
         /\ basis' = IF r.revokes = 1 /\ ~r.err THEN NoBasis ELSE basis
         /\ dropped' = IF r.revokes = 1 /\ ~r.err THEN TRUE ELSE dropped
    /\ UNCHANGED <<clock, vcc, issued, facade, conc, sent, cfg, wire, signer>>

\* newGcpAuthJwt(cfg).createSignedJwtWithRetry(l, maxRetries), called directly
SignWithRetry ==
    /\ Running
    /\ \E stub \in SignStubs, maxRetries \in 1..MaxRetryCap :
       \E s \in {createSignedJwtWithRetry(stub, maxRetries)} :
         last' = [NoCall EXCEPT !.op = "createSignedJwtWithRetry",
                     !.err = (s.kind = "err"), !.panic = (s.kind = "panic"),
                     !.signs = s.attempts, !.jwt = s.jwt, !.cause = s.cause,
                     !.cap = maxRetries, !.fails = stub.fails]
    /\ UNCHANGED <<gat, clock, vcc, issued, granted, basis, dropped,
                   facade, conc, sent, cfg, wire, signer>>

\* a second passes with no call in progress
Tick ==
    /\ Running
    /\ clock < MaxClock
    /\ clock' = clock + 1
    /\ last' = [NoCall EXCEPT !.op = "tick"]
    /\ UNCHANGED <<gat, vcc, issued, granted, basis, dropped,
                   facade, conc, sent, cfg, wire, signer>>

\* a package-level caller driving one token manager
Next ==
    \/ GetToken
    \/ IsExpired
    \/ IsRevoked
    \/ Refresh
    \/ Revoke
    \/ Tick

Spec == Init /\ [][Next]_vars

\* a package-level caller of the signer, directly and through getToken
NextSign ==
    \/ SignWithRetry
    \/ GetToken

SpecSign == Init /\ [][NextSign]_vars

\* vcc.GetApiInterface(l)
CallGetApiInterface ==
    /\ Running
    /\ facade.calls < MaxCalls
    /\ \E stub \in StubsFor(newVaultToken(vcc)) :
       \E in \in IF vcc.auth THEN LoginsFor(newVaultToken(vcc), stub)
                 ELSE {<<ErrResponse, 0>>} :
       \E r \in {GetApiInterface(vcc, clock, stub, in[1], in[2])} :
         /\ r.clock <= MaxClock
         /\ r.logins = 0 \/ issued < MaxIssued
         /\ vcc' = r.vcc
         /\ clock' = r.clock
         /\ issued' = IF r.logins = 1 /\ ~in[1].err /\ in[1].secret.hasAuth
                      THEN issued + 1 ELSE issued
         /\ last' = [NoCall EXCEPT !.op = "GetApiInterface", !.err = r.err,
                        !.panic = r.panic, !.token = r.token, !.signs = r.signs,
                        !.logins = r.logins, !.managers = r.managers,
                        !.jwt = r.jwt, !.cause = r.cause, !.flag = r.vc]
         /\ facade' = [calls |-> facade.calls + 1,
                       made |-> facade.made + r.managers,
                       ok |-> facade.ok \/ (~r.err /\ ~r.panic)]
    /\ UNCHANGED <<gat, granted, basis, dropped, conc, sent, cfg, wire, signer>>

\* an application driving one VaultClientConnection
NextApi ==
    \/ CallGetApiInterface
    \/ Tick

SpecApi == InitApi /\ [][NextApi]_vars

\* ------------------------------------------------------------- the signing loop, attempt by attempt
\* jwt.createSignedJwtWithRetry(l, maxRetries) is called
JwtCall ==
    /\ signer.pc = "idle"
    /\ \E maxRetries \in 1..MaxRetryCap :
         signer' = [NoSigner EXCEPT !.pc = "try", !.maxRetries = maxRetries]
    /\ UNCHANGED <<gat, clock, vcc, issued, last, granted, basis, dropped, facade,
                   conc, sent, cfg, wire>>

\* the inputs one attempt consumes: the metadata reply when it asks the
\* metadata service, the signing reply when it has resolved the account
MetadataFor(found) ==
    IF getSaInfo(found, NoMetadata).queried THEN MetadataReplies ELSE {NoMetadata}
DelaysFor(found) ==
    IF getSaInfo(found, NoMetadata).queried THEN Delays ELSE {0}
SignRepliesFor(found, meta) ==
    IF getSaInfo(found, meta).err THEN {NoReply} ELSE SignReplies

\* one pass of backoff.Retry: the operation (createSignedJwt), then on an
\* error NextBackOff, which stops the loop or counts the retry
JwtAttempt ==
    /\ signer.pc = "try"
    /\ \E found \in Discoveries : \E meta \in MetadataFor(found) :
       \E d \in DelaysFor(found) : \E reply \in SignRepliesFor(found, meta) :
       \E r \in {createSignedJwtAttempt(cfg.role, clock, found, meta, d, reply)} :
         /\ r.clock <= MaxClock
         /\ clock' = r.clock
         /\ signer' =
              [signer EXCEPT
                 !.pc = IF r.kind = "ok" THEN "done"
                        ELSE IF r.kind = "panic" THEN "panic"
                        ELSE IF StopRetry(signer.maxRetries, signer.numTries)
                        THEN "done" ELSE "backoff",
                 !.numTries = IF r.kind = "err"
                                 /\ ~StopRetry(signer.maxRetries, signer.numTries)
                              THEN @ + 1 ELSE @,
                 !.attempts = @ + 1,
                 !.failed = IF r.kind = "err" THEN @ + 1 ELSE @,
                 !.began = clock, !.found = found, !.meta = meta, !.reply = reply,
                 !.resolved = r.resolved, !.queried = r.queried,
                 !.saEmail = r.saEmail, !.claim = r.claim, !.outcome = r.kind]
    /\ UNCHANGED <<gat, vcc, issued, last, granted, basis, dropped, facade, conc,
                   sent, cfg, wire>>

\* the loop sleeps before the next attempt; the locals of the attempt
\* that returned are gone
JwtBackoff ==
    /\ signer.pc = "backoff"
    /\ \E d \in Delays :
         /\ clock + d <= MaxClock
         /\ clock' = clock + d
    /\ signer' = [NoSigner EXCEPT !.pc = "try", !.maxRetries = signer.maxRetries,
                                  !.numTries = signer.numTries,
                                  !.attempts = signer.attempts,
                                  !.failed = signer.failed]
    /\ UNCHANGED <<gat, vcc, issued, last, granted, basis, dropped, facade, conc,
                   sent, cfg, wire>>

\* the caller has the result and may call again
JwtReturn ==
    /\ signer.pc = "done"
    /\ signer' = NoSigner
    /\ UNCHANGED <<gat, clock, vcc, issued, last, granted, basis, dropped, facade,
                   conc, sent, cfg, wire>>

NextJwt ==
    \/ JwtCall
    \/ JwtAttempt
    \/ JwtBackoff
    \/ JwtReturn

\* a signer made for any role
InitJwt == \E vaultRole \in Roles : InitWith("", vaultRole)

SpecJwt == InitJwt /\ [][NextJwt]_vars

\* ------------------------------------------------------------- concurrent getToken
\* Two goroutines call gat.getToken on one manager. getToken takes no lock,
\* so its statements interleave; each step below is one statement (the
\* signing call and the login call as a whole), run against the shared
\* gat.token and gat.expiration.

\* line 32: if gat.token == nil
CBegin(c) ==
    /\ conc[c].pc = "idle"
    /\ conc' = [conc EXCEPT ![c] =
                   [Idle EXCEPT !.pc = IF HoldsNoToken(gat) THEN "sign" ELSE "ret"]]
    /\ UNCHANGED <<gat, clock, issued, sent>>

\* lines 33-47: createSignedJwtWithRetry, then now := time.Now()
CSign(c) ==
    /\ conc[c].pc = "sign"
    /\ \E stub \in SignStubs :
       \E s \in {createSignedJwtWithRetry(stub, cGetTokenRetries)} :
         conc' = [conc EXCEPT ![c] =
                    IF s.kind = "ok"
                    THEN [@ EXCEPT !.pc = "login", !.now = clock]
                    ELSE IF s.kind = "err"
                    THEN [@ EXCEPT !.pc = "done", !.err = TRUE]
                    ELSE [@ EXCEPT !.pc = "panic"]]
    /\ UNCHANGED <<gat, clock, issued, sent>>

\* lines 49-59: the login request and resp.TokenTTL()
CLogin(c) ==
    /\ conc[c].pc = "login"
    /\ sent < MaxIssued
    /\ \E resp \in SecretResponses(issued + 1), d \in Delays :
       \E ttl \in {TokenTTL(resp.secret)} :
         /\ clock + d <= MaxClock
         /\ clock' = clock + d
         /\ issued' = IF ~resp.err /\ resp.secret.hasAuth THEN issued + 1 ELSE issued
         /\ conc' = [conc EXCEPT ![c] =
                       IF resp.err \/ ttl.err
                       THEN [@ EXCEPT !.pc = "done", !.err = TRUE]
                       ELSE [@ EXCEPT !.pc = "setToken", !.resp = resp.secret,
                                      !.tokenTtl = ttl.ttl]]
    /\ sent' = sent + 1
    /\ UNCHANGED gat

\* line 61: gat.token = resp
CSetToken(c) ==
    /\ conc[c].pc = "setToken"
    /\ gat' = [gat EXCEPT !.token = conc[c].resp]
    /\ conc' = [conc EXCEPT ![c].pc = "setExp"]
    /\ UNCHANGED <<clock, issued, sent>>

\* line 62: gat.expiration = now.Add(tokenTtl)
CSetExpiration(c) ==
    /\ conc[c].pc = "setExp"
    /\ gat' = [gat EXCEPT !.expiration = LoginExpiration(conc[c].now, clock, conc[c].tokenTtl)]
    /\ conc' = [conc EXCEPT ![c].pc = "ret"]
    /\ UNCHANGED <<clock, issued, sent>>

\* lines 65-66: token = gat.token; return
CReturn(c) ==
    /\ conc[c].pc = "ret"
    /\ conc' = [conc EXCEPT ![c] = [@ EXCEPT !.pc = "done", !.token = gat.token]]
    /\ UNCHANGED <<gat, clock, issued, sent>>

\* the caller goes on and may call again
CAgain(c) ==
    /\ conc[c].pc = "done"
    /\ conc' = [conc EXCEPT ![c] = Idle]
    /\ UNCHANGED <<gat, clock, issued, sent>>

\* a second passes
CTick ==
    /\ clock < MaxClock
    /\ clock' = clock + 1
    /\ UNCHANGED <<gat, issued, conc, sent>>

NextConc ==
    /\ \A c \in Callers : conc[c].pc # "panic"
    /\ \/ \E c \in Callers :
            \/ CBegin(c)
            \/ CSign(c)
            \/ CLogin(c)
            \/ CSetToken(c)
            \/ CSetExpiration(c)
            \/ CReturn(c)
            \/ CAgain(c)
       \/ CTick
    /\ UNCHANGED <<vcc, last, granted, basis, dropped, facade, cfg, wire, signer>>

SpecConc == Init /\ [][NextConc]_vars

\* ------------------------------------------------------------- properties
Succeeded == ~last.err /\ ~last.panic

\* C1: getToken is idempotent while Active. Once a getToken on the manager
\* has succeeded (and no revoke has succeeded since), every later getToken
\* returns the same cached token and makes no signing attempt and no login
\* request; and a login request is sent only when the manager holds no token.
C1_GetTokenIdempotent ==
    [][last'.op = "getToken" =>
          /\ granted.has =>
                (last'.token = granted.tok /\ last'.signs = 0 /\ last'.logins = 0)
          /\ last'.logins = 1 => gat.token.isNil]_vars

\* C2: isRevoked on an Unissued manager returns true without a request; on
\* an Active manager its one self-lookup decides: revoked is false when the
\* lookup succeeds and true when it fails (last.cause = 1: the lookup failed).
C2_RevokedIffLookupFails ==
    last.op = "isRevoked" =>
        /\ gat.token.isNil => (last.flag /\ last.lookups = 0)
        /\ last.lookups = 1 => (last.flag <=> (last.cause = 1))

\* C3, as claimed: over the GetApiInterface calls on one connection at most
\* one token manager is constructed, and a call that follows a successful
\* call makes no signing attempt and no login request.
C3_OneManagerReused ==
    [][/\ facade'.made <= 1
       /\ (facade.ok /\ last'.op = "GetApiInterface") =>
             (last'.signs = 0 /\ last'.logins = 0)]_vars

\* C3, amended: in dynamic mode every GetApiInterface call constructs its own
\* token manager, which holds no token, so every call makes at least one
\* signing attempt, sends a login request exactly when signing succeeded,
\* and a call that returns normally has sent one login request.
C3_ManagerPerCall ==
    /\ ~StaticMode(vcc) => facade.made = facade.calls
    /\ (last.op = "GetApiInterface" /\ ~StaticMode(vcc)) =>
          /\ last.managers = 1
          /\ last.signs >= 1
          /\ last.logins = (IF last.jwt > 0 THEN 1 ELSE 0)
          /\ Succeeded => last.logins = 1

\* a second successful dynamic call, with its own login and credential
C3_Witness ==
    /\ last.op = "GetApiInterface" /\ Succeeded
    /\ facade.made = 2 /\ last.logins = 1
    /\ vcc.vcToken = IssuedCredential(2)

\* C4, as claimed: for every TTL the login reports, isExpired right after a
\* successful login by getToken is false; at any clock value strictly after
\* (timestamp before the login request + TTL) it is true; on an Unissued
\* manager it is true; and it makes no request. (Stated for the logins that
\* left a token in the manager.)
C4_FreshThenExpired ==
    /\ (last.op = "getToken" /\ Succeeded /\ last.logins = 1 /\ ~gat.token.isNil)
          => ~isExpired(gat, clock)
    /\ (basis.kind = "login" /\ clock > basis.pre + basis.ttl) => isExpired(gat, clock)
    /\ gat.token.isNil => isExpired(gat, clock)
    /\ last.op = "isExpired" =>
          (last.logins = 0 /\ last.signs = 0 /\ last.lookups = 0
           /\ last.renews = 0 /\ last.revokes = 0 /\ last.flag = isExpired(gat, clock))

\* C4, amended: after a successful login by getToken (and until a refresh or
\* revoke), isExpired is false exactly while a token is held and the clock is
\* at most (timestamp before the login request + TTL). Right after getToken
\* that means: false when the login left a token and took no longer than the
\* TTL, true otherwise. On an Unissued manager it is true; it makes no request.
C4_ExpiredIffPastTtl ==
    /\ basis.kind = "login" =>
          (isExpired(gat, clock) <=> (gat.token.isNil \/ clock > basis.pre + basis.ttl))
    /\ (last.op = "getToken" /\ Succeeded /\ last.logins = 1) =>
          /\ basis.kind = "login" /\ basis.post = clock
          /\ isExpired(gat, clock) <=> (gat.token.isNil \/ basis.post - basis.pre > basis.ttl)
    /\ gat.token.isNil => isExpired(gat, clock)
    /\ last.op = "isExpired" =>
          (last.logins = 0 /\ last.signs = 0 /\ last.lookups = 0
           /\ last.renews = 0 /\ last.revokes = 0 /\ last.flag = isExpired(gat, clock))

\* isExpired answers true for a held token whose positive TTL has elapsed
C4_Witness ==
    /\ last.op = "isExpired" /\ last.flag
    /\ basis.kind = "login" /\ basis.ttl > 0 /\ ~gat.token.isNil
    /\ clock = basis.pre + basis.ttl + 1

\* C5: a successful refresh sets expiration to (timestamp before the
\* renew-self request + the TTL the server returned), whatever the previous
\* expiration and the hint.
C5_RefreshFromPreCallTime ==
    (last.op = "refresh" /\ ~last.err) =>
        (basis.kind = "refresh" /\ gat.expiration = basis.pre + basis.ttl)

\* C6: after revoke succeeds on an Active manager the manager is Unissued
\* and isExpired is true; the next getToken makes a signing attempt and sends
\* a login request once signing has succeeded, instead of answering from the
\* cache.
C6_RevokeForcesLogin ==
    /\ (last.op = "revoke" /\ last.revokes = 1 /\ ~last.err) =>
          (gat.token.isNil /\ isExpired(gat, clock) /\ dropped)
    /\ dropped => gat.token.isNil
    /\ (last.op = "getToken" /\ last.afterRevoke) =>
          /\ last.signs >= 1
          /\ last.logins = (IF last.jwt > 0 THEN 1 ELSE 0)
          /\ Succeeded => last.logins = 1

\* the first getToken after a revoke has logged in again
C6_Witness ==
    /\ last.op = "getToken" /\ last.afterRevoke /\ Succeeded
    /\ last.logins = 1 /\ ~gat.token.isNil /\ gat.token.clientToken = 2

\* C7: signing with retry cap N makes at most N+1 attempts; it stops at the
\* first attempt that succeeds and returns that attempt's JWT; when all N+1
\* attempts fail it returns an error carrying the last attempt's failure;
\* getToken, with cap 5, makes at most 6 attempts.
C7_RetryCap ==
    /\ last.op = "createSignedJwtWithRetry" =>
          /\ last.signs <= last.cap + 1
          /\ last.fails >= last.cap + 1 =>
                (last.err /\ last.signs = last.cap + 1 /\ last.cause = last.cap + 1)
          /\ last.fails <= last.cap =>
                (~last.err /\ last.signs = last.fails + 1
                 /\ (~last.panic => last.jwt = last.fails + 1))
          /\ (last.cap = 5 /\ last.fails = 3 /\ ~last.panic) =>
                (Succeeded /\ last.signs = 4)
          /\ (last.cap = 2 /\ last.fails >= 3) => (last.err /\ last.signs = 3)
    /\ last.op = "getToken" => last.signs <= 6

\* cap 2, a signer that always fails: an error after exactly 3 attempts
C7_Witness ==
    /\ last.op = "createSignedJwtWithRetry"
    /\ last.cap = 2 /\ last.fails >= 3 /\ last.err /\ last.signs = 3

\* C8: with a static credential no GetApiInterface call makes a signing
\* attempt (and so no identity resolution), sends a login request or
\* constructs a token manager; every call returns the client without error,
\* the static credential still set.
C8_StaticModeIsLocal ==
    ~vcc.auth =>
        /\ vcc.vcToken = StaticCredential
        /\ facade.made = 0
        /\ last.op = "GetApiInterface" =>
              (Succeeded /\ last.signs = 0 /\ last.logins = 0 /\ last.managers = 0)

\* a second static-mode call
C8_Witness ==
    ~vcc.auth /\ last.op = "GetApiInterface" /\ facade.calls = 2

\* C10: revoke clears the token only after RevokeSelf succeeded: when it
\* fails, revoke returns the error and token and expiration stay as they were.
C10_FailedRevokeKeepsToken ==
    [][last'.op = "revoke" =>
          /\ last'.err => (last'.revokes = 1 /\ ~gat.token.isNil /\ gat' = gat)
          /\ (~gat.token.isNil /\ gat'.token.isNil) => ~last'.err]_vars

\* a failed revoke on an Active manager
C10_Witness ==
    last.op = "revoke" /\ last.err /\ last.revokes = 1 /\ ~gat.token.isNil

\* C9: concurrent getToken calls on one Unissued manager are not serialized.
\* A caller entering getToken goes on to sign and log in exactly when
\* gat.token is nil at that moment, whatever the other caller is doing; so
\* both can pass the test and each send a login request.
C9_CheckIgnoresOtherCallers ==
    [][\A c \in Callers :
          (conc[c].pc = "idle" /\ conc'[c].pc # "idle") =>
              (conc'[c].pc = "sign" <=> gat.token.isNil)]_vars

\* both callers have logged in, neither has stored its token yet: two logins
\* by one manager, no revoke in between
C9_Witness ==
    /\ \A c \in Callers : conc[c].pc = "setToken" /\ ~conc[c].resp.isNil
    /\ sent = 2 /\ gat.token.isNil

\* C11: a failed operation leaves the manager as it was. A getToken that
\* returns an error (signing retries exhausted, login rejected, TTL not
\* parsable) leaves the manager Unissued, no token stored; a refresh that
\* returns an error (renew-self rejected, TTL not parsable, no token held)
\* leaves token and expiration exactly as they were.
C11_FailureKeepsState ==
    [][/\ (last'.op = "getToken" /\ last'.err) =>
             (gat.token.isNil /\ gat' = gat /\ last'.token.isNil)
       /\ (last'.op = "refresh" /\ last'.err) => gat' = gat]_vars

\* a renew-self request has failed on an Active manager, one second after
\* the login that set the expiration
C11_Witness ==
    /\ last.op = "refresh" /\ last.err /\ last.renews = 1
    /\ ~gat.token.isNil /\ basis.kind = "login" /\ clock > basis.post

\* C12: refresh on an Unissued manager (never logged in, or after a
\* successful revoke) returns an error, sends no request and leaves the
\* manager Unissued.
C12_RefreshNeedsToken ==
    [][(last'.op = "refresh" /\ gat.token.isNil) =>
          (last'.err /\ last'.renews = 0 /\ gat' = gat /\ clock' = clock)]_vars

\* refresh refused right after a successful revoke
C12_Witness ==
    /\ last.op = "refresh" /\ last.err /\ last.renews = 0
    /\ gat.token.isNil /\ dropped

\* C13: retry happens only in the signing step. One getToken sends at most
\* one login request; one refresh, revoke or isRevoked sends at most one
\* renew-self, revoke-self or lookup-self request and nothing else; a
\* getToken whose login failed returns the error, its last signing attempt
\* being the one whose JWT went into that one login request.
C13_RetryOnlyInSigning ==
    /\ last.logins <= 1 /\ last.renews <= 1 /\ last.revokes <= 1 /\ last.lookups <= 1
    /\ last.op = "getToken" =>
          /\ last.renews = 0 /\ last.revokes = 0 /\ last.lookups = 0
          /\ last.logins = 1 => (last.jwt >= 1 /\ last.signs = last.jwt)
          /\ last.logins = 0 => last.jwt = 0
    /\ last.op \in {"refresh", "revoke", "isRevoked", "isExpired"} =>
          /\ last.signs = 0 /\ last.logins = 0
          /\ last.renews + last.revokes + last.lookups <= 1
          /\ last.renews = 1 => last.op = "refresh"
          /\ last.revokes = 1 => last.op = "revoke"
          /\ last.lookups = 1 => last.op = "isRevoked"

\* signing was retried twice, then the one login request failed and the
\* call returned the error
C13_Witness ==
    /\ last.op = "getToken" /\ last.err
    /\ last.signs = 3 /\ last.jwt = 3 /\ last.logins = 1

\* C14: after every successful dynamic-mode GetApiInterface the credential
\* bound to the returned client is the client token of the secret getToken
\* returned in that same call, a secret the server issued in that call.
C14_ClientCarriesReturnedToken ==
    [][(last'.op = "GetApiInterface" /\ ~last'.err /\ ~last'.panic /\ vcc'.auth) =>
          /\ ~last'.token.isNil /\ last'.token.hasAuth
          /\ vcc'.vcToken = IssuedCredential(last'.token.clientToken)
          /\ last'.logins = 1 /\ issued' = issued + 1
          /\ last'.token.clientToken = issued']_vars

\* the third call succeeds after the second failed: the client moves from
\* the first call's credential to the one issued now
C14_Witness ==
    /\ last.op = "GetApiInterface" /\ Succeeded /\ vcc.auth
    /\ facade.calls = 3 /\ issued = 2
    /\ vcc.vcToken = IssuedCredential(2) /\ last.token.clientToken = 2

\* C15: every signing attempt, retries included, builds its own claim:
\* audience "vault/" + role, subject the identity resolved in that attempt
\* (the credentials' client_email, else the trimmed metadata body), expiry
\* that attempt's own timestamp + 60 seconds. An attempt that resolved no
\* identity builds none.
C15_FreshClaimPerAttempt ==
    [][signer'.attempts = signer.attempts + 1 =>
          /\ signer'.resolved =>
                /\ signer'.claim.aud = <<"vault/", cfg.role>>
                /\ signer'.claim.sub = signer'.saEmail
                /\ signer'.saEmail =
                      (IF signer'.found.creds.clientEmail # <<>>
                       THEN signer'.found.creds.clientEmail
                       ELSE TrimSpace(signer'.meta.body))
                /\ signer'.claim.exp = clock' + 60
                /\ signer'.began = clock
          /\ ~signer'.resolved => signer'.claim = NoClaim]_vars

\* the second retry, two seconds after the call began, for role "batch":
\* the identity comes from the metadata service, the expiry from now
C15_Witness ==
    /\ signer.attempts = 3 /\ signer.resolved /\ signer.queried
    /\ cfg.role = "batch" /\ signer.saEmail = <<"d">> /\ signer.meta.body = <<" ", "d">>
    /\ clock = 3 /\ signer.claim = [aud |-> <<"vault/", "batch">>, sub |-> <<"d">>, exp |-> 63]

\* C16: getToken sends its login request only after a signing attempt of
\* that same call succeeded; the request carries the JWT that attempt
\* returned (the call's last attempt) and the configured role; every login
\* request carries a JWT signed after the previous request was sent, so no
\* JWT goes into two requests; the manager keeps token and expiration only.
C16_LoginCarriesFreshJwt ==
    [][last'.op = "getToken" =>
          /\ last'.logins = 1 <=> wire'.minted = wire.minted + 1
          /\ last'.logins = 1 =>
                /\ last'.jwt >= 1 /\ last'.jwt = last'.signs
                /\ wire'.request = [role |-> cfg.role, jwt |-> wire'.minted]
                /\ wire'.request.jwt > wire.request.jwt
          /\ last'.logins = 0 => wire' = wire
          /\ DOMAIN gat' = {"token", "expiration"}]_vars

\* the second login request of the manager, after signing was retried once:
\* it carries the second JWT
C16_Witness ==
    /\ last.op = "getToken" /\ last.logins = 1 /\ last.signs = 2 /\ last.jwt = 2
    /\ wire.minted = 2 /\ wire.request = [role |-> "app", jwt |-> 2]

\* C17: the resolver asks the metadata service only when discovery
\* succeeded and the credentials carry no client_email, and for all such
\* credentials it does ask; it fails when discovery fails, when the metadata
\* status is not 200 and when the metadata body is empty; a successful
\* resolution yields a non-empty identity.
C17_ResolverFallsBack ==
    signer.outcome # "none" =>
        /\ signer.queried =>
              (~signer.found.err /\ signer.found.creds.clientEmail = <<>>)
        /\ (~signer.found.err /\ signer.found.creds.clientEmail = <<>>) =>
              signer.queried
        /\ signer.found.err => ~signer.resolved
        /\ (signer.queried /\ signer.meta.status # 200) => ~signer.resolved
        /\ (signer.queried /\ signer.meta.body = <<>>) => ~signer.resolved
        /\ signer.resolved => signer.saEmail # <<>>

\* C18: an attempt that posted its request succeeds only when the response
\* is JSON without an "error" member and with a string "signedJwt"; a
\* response with an error object fails the attempt, a "signedJwt" beside it
\* or not; a response with neither fails it; and every failed attempt is
\* counted by the retry loop, which retries or gives up.
C18_ReplyDecidesAttempt ==
    (signer.outcome # "none" /\ signer.resolved) =>
        /\ signer.outcome = "ok" =>
              (/\ ~signer.reply.postErr /\ ~signer.reply.readErr /\ signer.reply.json
               /\ signer.reply.error = "absent" /\ signer.reply.signedJwt = "string")
        /\ (signer.reply.json /\ signer.reply.error \in {"object", "partial"}) =>
              signer.outcome = "err"
        /\ (signer.reply.json /\ signer.reply.error = "absent"
               /\ signer.reply.signedJwt = "absent") => signer.outcome = "err"
        /\ signer.outcome = "err" =>
              (signer.failed = signer.attempts /\ signer.pc \in {"backoff", "done"})

\* C19: whenever getToken returns without error the manager holds a token
\* and the returned token is that token, non-nil and with an Auth block
\* (the client credential), whatever the login endpoint answered.
C19_SuccessMeansCredential ==
    (last.op = "getToken" /\ ~last.err /\ ~last.panic) =>
        /\ ~gat.token.isNil
        /\ last.token = gat.token
        /\ last.token.hasAuth

\* C20: under any interleaving of concurrent getToken calls the expiration
\* held with a token is the one computed from that token's login. Stated
\* for a held token that carries a client token (which names its login) at
\* the moments when the caller whose login produced it has finished storing
\* it: the expiration is that caller's pre-login timestamp plus the TTL of
\* its response.
C20_TokenAndExpirationOfOneLogin ==
    \A c \in Callers :
        (/\ conc[c].pc \in {"ret", "done"}
         /\ ~conc[c].resp.isNil /\ conc[c].resp.hasAuth
         /\ gat.token = conc[c].resp) =>
            gat.expiration = conc[c].now + conc[c].tokenTtl

\* C21: the token held by an Active manager changes only through a
\* successful revoke, which clears it. getToken, isExpired, isRevoked,
\* refresh (successful or failed) and the passage of time leave it as it is;
\* getToken on an Active manager returns the held token without signing
\* and without a login request, expired or not.
C21_OnlyRevokeChangesToken ==
    [][~gat.token.isNil =>
          /\ gat'.token # gat.token =>
                (last'.op = "revoke" /\ ~last'.err /\ last'.revokes = 1
                 /\ gat'.token.isNil)
          /\ last'.op = "getToken" =>
                (/\ last'.token = gat.token /\ ~last'.err
                 /\ last'.signs = 0 /\ last'.logins = 0 /\ gat' = gat)]_vars

\* getToken hands out the held token after a refresh moved its expiration
\* and that expiration has passed
C21_Witness ==
    /\ last.op = "getToken" /\ last.logins = 0 /\ last.signs = 0
    /\ ~gat.token.isNil /\ last.token = gat.token /\ gat.token.hasAuth
    /\ basis.kind = "refresh" /\ basis.ttl > 0 /\ isExpired(gat, clock)

\* C22: a dynamic-mode GetApiInterface call that fails leaves the credential
\* of the shared client exactly as it was (that of the last successful
\* call, or none) and returns the client (last.flag) with the error.
C22_FailedCallKeepsCredential ==
    [][(last'.op = "GetApiInterface" /\ last'.err /\ vcc.auth) =>
          /\ vcc' = vcc
          /\ last'.flag /\ ~last'.panic
          /\ vcc'.vcToken \in {NoCredential} \cup {IssuedCredential(i) : i \in 1..issued}
          /\ facade.ok <=> vcc'.vcToken # NoCredential]_vars

\* a call fails at its login request after an earlier call succeeded: the
\* client still carries the first call's credential
C22_Witness ==
    /\ last.op = "GetApiInterface" /\ last.err /\ last.logins = 1 /\ last.flag
    /\ facade.calls = 2 /\ facade.ok /\ vcc.vcToken = IssuedCredential(1)

====
